---- MODULE Spec2Model ----
(***************************************************************************)
(* A model of entrypoint.py of action-docker-image-updater: the version    *)
(* matcher (check_image), the reference extractors (proc_stack), the       *)
(* change applier (update_stack, create_branch_and_mr), the branch         *)
(* lifecycle manager (cleanup_branches) and the two drivers (run,          *)
(* dry_run).  Texts, tags and branch names are TLA+ strings, handled       *)
(* character by character the way the regular expressions and the str      *)
(* methods of the source handle them.                                      *)
(***************************************************************************)
EXTENDS Integers, Sequences, FiniteSets, TLC

None == "<None>"

-----------------------------------------------------------------------------
(* Strings: the str methods the source uses.                               *)

Ch(s, i) == SubSeq(s, i, i)

Digits == {"0", "1", "2", "3", "4", "5", "6", "7", "8", "9"}

IsDigit(c) == c \in Digits

\* \s of the re module, within the characters the model's texts use
Spaces == {" ", "\n", "\t"}

IsSpace(c) == c \in Spaces

DigitVal(c) ==
  CASE c = "0" -> 0 [] c = "1" -> 1 [] c = "2" -> 2 [] c = "3" -> 3
    [] c = "4" -> 4 [] c = "5" -> 5 [] c = "6" -> 6 [] c = "7" -> 7
    [] c = "8" -> 8 [] c = "9" -> 9

\* the code points' order, for the characters the model's strings use
AsciiOrder ==
  "\t\n !\"#&'()*-./0123456789:<=>?ABCDEFGHIJKLMNOPQRSTUVWXYZ_abcdefghijklmnopqrstuvwxyz"

OrdTable ==
  [c \in {Ch(AsciiOrder, i) : i \in 1..Len(AsciiOrder)} |->
     CHOOSE i \in 1..Len(AsciiOrder) : Ch(AsciiOrder, i) = c]

Ord(c) == OrdTable[c]

\* str < str: the first differing code point decides, a proper prefix is smaller
StrLess(a, b) ==
  LET n == IF Len(a) < Len(b) THEN Len(a) ELSE Len(b)
  IN  IF \A i \in 1..n : Ch(a, i) = Ch(b, i) THEN Len(a) < Len(b)
      ELSE LET d == CHOOSE i \in 1..n :
                      Ch(a, i) # Ch(b, i) /\ \A k \in 1..(i - 1) : Ch(a, k) = Ch(b, k)
           IN  Ord(Ch(a, d)) < Ord(Ch(b, d))

StartsWith(s, p) == Len(p) <= Len(s) /\ SubSeq(s, 1, Len(p)) = p

EndsWith(s, p) == Len(p) <= Len(s) /\ SubSeq(s, Len(s) - Len(p) + 1, Len(s)) = p

\* whether sub occurs in s at position i
OccursAt(s, sub, i) == i >= 1 /\ i + Len(sub) - 1 <= Len(s) /\ SubSeq(s, i, i + Len(sub) - 1) = sub

\* str.find from position i (1-based); 0 when sub does not occur
Find(s, sub, i) ==
  IF \E j \in i..Len(s) : OccursAt(s, sub, j)
  THEN CHOOSE j \in i..Len(s) :
         OccursAt(s, sub, j) /\ \A k \in i..(j - 1) : ~OccursAt(s, sub, k)
  ELSE 0

Contains(s, sub) == Find(s, sub, 1) # 0

\* str.count of a non-empty sub: non-overlapping occurrences, left to right
RECURSIVE Count(_, _)
Count(s, sub) ==
  LET i == Find(s, sub, 1)
  IN  IF i = 0 THEN 0
      ELSE 1 + Count(SubSeq(s, i + Len(sub), Len(s)), sub)

\* str.replace(old, new) of a non-empty old: every non-overlapping occurrence
RECURSIVE Replace(_, _, _)
Replace(s, old, new) ==
  LET i == Find(s, old, 1)
  IN  IF i = 0 THEN s
      ELSE SubSeq(s, 1, i - 1) \o new \o Replace(SubSeq(s, i + Len(old), Len(s)), old, new)

\* str.split(sep): the pieces between the occurrences of a non-empty sep
RECURSIVE Split(_, _)
Split(s, sep) ==
  LET i == Find(s, sep, 1)
  IN  IF i = 0 THEN <<s>>
      ELSE <<SubSeq(s, 1, i - 1)>> \o Split(SubSeq(s, i + Len(sep), Len(s)), sep)

\* str.split(sep, 1): at most one split
Split1(s, sep) ==
  LET i == Find(s, sep, 1)
  IN  IF i = 0 THEN <<s>>
      ELSE <<SubSeq(s, 1, i - 1), SubSeq(s, i + Len(sep), Len(s))>>

\* ''.join and '\n'.join
RECURSIVE Join(_, _)
Join(parts, sep) ==
  IF parts = <<>> THEN ""
  ELSE IF Len(parts) = 1 THEN parts[1]
  ELSE parts[1] \o sep \o Join(Tail(parts), sep)

\* the end of the line that holds position i: the last position before the next "\n"
LineEnd(s, i) ==
  LET n == Find(s, "\n", i) IN IF n = 0 THEN Len(s) ELSE n - 1

-----------------------------------------------------------------------------
(* Version matcher: _re_tag, version_tuple and the pattern of check_image. *)

\* int() of a run of decimal digits
RECURSIVE ToInt(_)
ToInt(d) ==
  IF d = "" THEN 0
  ELSE 10 * ToInt(SubSeq(d, 1, Len(d) - 1)) + DigitVal(Ch(d, Len(d)))

\* the end of the run, starting at i, of the characters of s that are in the set
\* class; i - 1 when position i holds none
ClassEnd(s, i, class) ==
  IF \A j \in i..Len(s) : Ch(s, j) \in class THEN Len(s)
  ELSE (CHOOSE j \in i..Len(s) :
          Ch(s, j) \notin class /\ \A k \in i..(j - 1) : Ch(s, k) \in class) - 1

\* the end of \d+ starting at i (i holds a digit)
DigitsEnd(s, i) == ClassEnd(s, i, Digits)

\* the end of \d+([\.-]\d+)* starting at i (i holds a digit): both are greedy
RECURSIVE RunEnd(_, _)
RunEnd(s, i) ==
  LET e == DigitsEnd(s, i)
  IN  IF e + 2 <= Len(s) /\ Ch(s, e + 1) \in {".", "-"} /\ IsDigit(Ch(s, e + 2))
      THEN RunEnd(s, e + 2)
      ELSE e

\* the first position >= i of s that holds a digit, 0 when there is none
FirstDigit(s, i) ==
  IF \E j \in i..Len(s) : IsDigit(Ch(s, j))
  THEN CHOOSE j \in i..Len(s) : IsDigit(Ch(s, j)) /\ \A k \in i..(j - 1) : ~IsDigit(Ch(s, k))
  ELSE 0

\* self._re_tag.match(tag): (.*?)(\d+([\.-]\d+)*)(.*), groups 1, 2 and 4
re_tag_match(tag) ==
  LET i == FirstDigit(tag, 1)
  IN  IF i = 0 THEN [ok |-> FALSE, g1 |-> "", g2 |-> "", g4 |-> ""]
      ELSE LET e == RunEnd(tag, i)
           IN  [ok |-> TRUE,
                g1 |-> SubSeq(tag, 1, i - 1),
                g2 |-> SubSeq(tag, i, e),
                g4 |-> SubSeq(tag, e + 1, Len(tag))]

\* tuple(map(int, ...)) over the pieces
RECURSIVE MapInt(_)
MapInt(parts) ==
  IF parts = <<>> THEN <<>> ELSE <<ToInt(parts[1])>> \o MapInt(Tail(parts))

version_tuple(version_string) == MapInt(Split(Replace(version_string, "-", "."), "."))

\* tuple < tuple of Python: lexicographic, a proper prefix is smaller
RECURSIVE TupleLess(_, _)
TupleLess(a, b) ==
  IF b = <<>> THEN FALSE
  ELSE IF a = <<>> THEN TRUE
  ELSE IF a[1] = b[1] THEN TupleLess(Tail(a), Tail(b))
  ELSE a[1] < b[1]

\* pattern.match(tag) for ^{escape(g1)}(\d+([\.-]\d+)*){escape(g4)}$: group 1, or None
pattern_match(g1, g4, tag) ==
  LET lo == Len(g1) + 1
      hi == Len(tag) - Len(g4)
  IN  IF /\ StartsWith(tag, g1)
         /\ EndsWith(tag, g4)
         /\ lo <= hi
         /\ IsDigit(Ch(tag, lo))
         /\ RunEnd(SubSeq(tag, 1, hi), lo) = hi
      THEN SubSeq(tag, lo, hi)
      ELSE None

\* (version, tag) < (version, tag) of Python, as list.sort compares the pairs
PairLess(p, q) == TupleLess(p[1], q[1]) \/ (p[1] = q[1] /\ StrLess(p[2], q[2]))

\* list.sort: insertion of one pair into a sorted list, after the pairs not greater
RECURSIVE SortedInsert(_, _)
SortedInsert(sorted, p) ==
  IF sorted = <<>> THEN <<p>>
  ELSE IF PairLess(p, sorted[1]) THEN <<p>> \o sorted
  ELSE <<sorted[1]>> \o SortedInsert(Tail(sorted), p)

\* a list left in the registry's order
Sort_unsorted(pairs) == pairs

RECURSIVE Sort(_)
Sort(pairs) ==
  IF pairs = <<>> THEN <<>>
  ELSE SortedInsert(Sort(SubSeq(pairs, 1, Len(pairs) - 1)), pairs[Len(pairs)])

\* the registry test of check_image: more than one "/" and a first part that looks like a host
unsupported_registry(image) ==
  /\ Count(image, "/") > 1
  /\ LET part1 == Split1(image, "/")[1]
     IN  Contains(part1, ".") \/ Contains(part1, ":") \/ part1 = "localhost"

\* the comparison without the test of the number of segments
is_newer_any_length(current_version, new_version) == TupleLess(current_version, new_version)

\* whether a tag with version new_version is newer than current_version
is_newer(current_version, new_version) ==
  Len(current_version) = Len(new_version) /\ TupleLess(current_version, new_version)

\* the loop of check_image over the registry's tags, in the registry's order
RECURSIVE newer_tags_of(_, _, _, _)
newer_tags_of(g1, g4, current_version, tags) ==
  IF tags = <<>> THEN <<>>
  ELSE LET mp == pattern_match(g1, g4, tags[1])
           rest == newer_tags_of(g1, g4, current_version, Tail(tags))
       IN  IF mp # None /\ is_newer(current_version, version_tuple(mp))
           THEN <<<<version_tuple(mp), tags[1]>>>> \o rest
           ELSE rest

\* the repository get_tags is asked for
repository_of(image) == IF Contains(image, "/") THEN image ELSE "library/" \o image

\* check_image(stack, image, tag) against the registry's tag list: the value returned
\* (None, or the sorted list of (version, tag)), the notice printed, and the
\* repository get_tags was called with (None when it was not called)
check_image(image, tag, tags) ==
  IF unsupported_registry(image)
  THEN [updates |-> None, notice |-> "non-supported registry", query |-> None]
  ELSE LET m == re_tag_match(tag)
       IN  IF ~m.ok
           THEN [updates |-> None, notice |-> "non-semver tag", query |-> None]
           ELSE [updates |-> Sort(newer_tags_of(m.g1, m.g4, version_tuple(m.g2), tags)),
                 notice |-> "",
                 query |-> repository_of(image)]

-----------------------------------------------------------------------------
(* Reference extractor: _re_image, the disable annotation, the extra fields. *)

\* the end of the run of \s starting at i; i - 1 when position i holds none
SpaceEnd(s, i) == ClassEnd(s, i, Spaces)

\* [a-z\-]
AnchorChars ==
  {"a", "b", "c", "d", "e", "f", "g", "h", "i", "j", "k", "l", "m", "n", "o", "p", "q",
   "r", "s", "t", "u", "v", "w", "x", "y", "z", "-"}

\* the end of the run of [a-z\-] starting at i; i - 1 when position i holds none
AnchorNameEnd(s, i) == ClassEnd(s, i, AnchorChars)

\* (&[a-z\-]+ ) at position a: the position after it, 0 when it does not match
AnchorAfter(s, a) ==
  IF a <= Len(s) /\ Ch(s, a) = "&"
  THEN LET r == AnchorNameEnd(s, a + 1)
       IN  IF r >= a + 1 /\ r + 1 <= Len(s) /\ Ch(s, r + 1) = " " THEN r + 2 ELSE 0
  ELSE 0

\* ["'] at position b: the position after it, 0 when it does not match
QuoteAfter(s, b) == IF b <= Len(s) /\ Ch(s, b) \in {"\"", "'"} THEN b + 1 ELSE 0

\* (.+?):(.+)["']? at position b of a line ending at le: the lazy repository ends
\* before the first ":" that leaves a character for the greedy tag, which runs to
\* the end of the line (the closing quote included)
ImageBody(s, b, le) ==
  LET c == IF b = 0 \/ b > le THEN 0 ELSE Find(s, ":", b + 1)
  IN  IF c # 0 /\ c < le
      THEN [ok |-> TRUE, image |-> <<SubSeq(s, b, c - 1), SubSeq(s, c + 1, le)>>]
      ELSE [ok |-> FALSE, image |-> <<>>]

\* the rest of _re_image after "image: " at position a: the optional groups are
\* tried present first, absent on backtracking
ImageTail(s, a) ==
  LET le == LineEnd(s, a)
      anc == AnchorAfter(s, a)
      m1 == ImageBody(s, IF anc = 0 THEN 0 ELSE QuoteAfter(s, anc), le)
      m2 == ImageBody(s, anc, le)
      m3 == ImageBody(s, QuoteAfter(s, a), le)
      m4 == ImageBody(s, a, le)
  IN  IF m1.ok THEN m1 ELSE IF m2.ok THEN m2 ELSE IF m3.ok THEN m3 ELSE m4

\* whether _re_image matches with its "image: " at position q
ImageAt(s, q) == OccursAt(s, "image: ", q) /\ ImageTail(s, q + 7).ok

\* self._re_image.findall(s) from position pos, the anchor group trimmed (image[1:]):
\* the (repository, tag) pairs in the order of the text
RECURSIVE re_image_findall(_, _)
re_image_findall(s, pos) ==
  IF \A q \in pos..Len(s) : ~ImageAt(s, q) THEN <<>>
  ELSE LET q == CHOOSE j \in pos..Len(s) : ImageAt(s, j) /\ \A i \in pos..(j - 1) : ~ImageAt(s, i)
       IN  <<ImageTail(s, q + 7).image>> \o re_image_findall(s, LineEnd(s, q + 7) + 1)

\* whether pattern pat, used as a regular expression, matches at position q: "." is any
\* character (re.DOTALL), every other character of the model's names is itself
RegexAt(s, q, pat) ==
  /\ q >= 1
  /\ q + Len(pat) - 1 <= Len(s)
  /\ \A i \in 1..Len(pat) : Ch(pat, i) = "." \/ Ch(s, q + i - 1) = Ch(pat, i)

DisableMarker == "# autoupdater: disable"

\* re.findall(r'# autoupdater: disable\s+[^\n]*' + image0, s, re.DOTALL) is not empty:
\* a marker, at least one \s, no line break after that run of \s, then image0
disabled(s, image0) ==
  \E m \in 1..Len(s) :
    /\ OccursAt(s, DisableMarker, m)
    /\ LET e == m + Len(DisableMarker)
           w == SpaceEnd(s, e)
       IN  /\ w >= e
           /\ \E q \in (e + 1)..Len(s) :
                /\ RegexAt(s, q, image0)
                /\ \A j \in (w + 1)..(q - 1) : Ch(s, j) # "\n"

\* field_re.findall(data) for \s*({k}\s*:\s*)(.*) from position pos: the
\* (raw_field, value) pairs; the \s* after the colon is greedy and crosses line breaks
\* whether {k}\s*: matches at position q
FieldAt(s, k, q) ==
  /\ RegexAt(s, q, k)
  /\ LET c == SpaceEnd(s, q + Len(k)) + 1 IN c <= Len(s) /\ Ch(s, c) = ":"

RECURSIVE field_findall(_, _, _)
field_findall(s, k, pos) ==
  IF \A q \in pos..Len(s) : ~FieldAt(s, k, q) THEN <<>>
  ELSE LET q == CHOOSE j \in pos..Len(s) :
                  FieldAt(s, k, j) /\ \A i \in pos..(j - 1) : ~FieldAt(s, k, i)
       IN  LET w == SpaceEnd(s, SpaceEnd(s, q + Len(k)) + 2)
               le == IF w + 1 > Len(s) THEN w ELSE LineEnd(s, w + 1)
           IN  <<<<SubSeq(s, q, w), SubSeq(s, w + 1, le)>>>> \o field_findall(s, k, le + 1)

-----------------------------------------------------------------------------
(* Update planner: proc_stack and its three strategies.  A strategy's result *)
(* is its list r, the repositories it called get_tags with, and the notices  *)
(* it printed; an entry of r is <<<<locator, tag>>, updates>>.                *)

NoResult == [r |-> <<>>, queries |-> <<>>, notices |-> <<>>]

Concat(a, b) ==
  [r |-> a.r \o b.r, queries |-> a.queries \o b.queries, notices |-> a.notices \o b.notices]

\* x2[p1:-p2] of Python: a stop of -0 is 0, and the slice is then empty
slice_tag(x2, p1, p2) ==
  LET stop == IF p2 = 0 THEN 0 ELSE IF Len(x2) - p2 < 0 THEN 0 ELSE Len(x2) - p2
  IN  SubSeq(x2, p1 + 1, stop)

\* [(x1, x2[p1:-p2]) for x1, x2 in updates]
RECURSIVE filtered_updates(_, _, _)
filtered_updates(updates, p1, p2) ==
  IF updates = <<>> THEN <<>>
  ELSE <<<<updates[1][1], slice_tag(updates[1][2], p1, p2)>>>>
         \o filtered_updates(Tail(updates), p1, p2)

\* the body of the inner loop of _proc_stack_extra_fields for one (raw_field, m)
extra_field_entry(field_template, raw_field, m, tags) ==
  LET image == Split1(Replace(field_template, "?", m), ":")
      c == check_image(image[1], image[2], tags)
      tag_template == Split1(Split(field_template, ":")[2], "?")
      p1 == Len(tag_template[1])
      p2 == Len(tag_template[2])
      note == IF c.notice = "" THEN <<>> ELSE <<<<c.notice, image[1]>>>>
      asked == IF c.query = None THEN <<>> ELSE <<c.query>>
  IN  IF c.updates = None
      THEN [r |-> <<>>, queries |-> asked, notices |-> note]
      ELSE [r |-> <<<<<<raw_field, m>>, filtered_updates(c.updates, p1, p2)>>>>,
            queries |-> asked, notices |-> note]

RECURSIVE extra_field_matches(_, _, _)
extra_field_matches(field_template, found, tags) ==
  IF found = <<>> THEN NoResult
  ELSE Concat(extra_field_entry(field_template, found[1][1], found[1][2], tags),
              extra_field_matches(field_template, Tail(found), tags))

\* _proc_stack_extra_fields: fields is self._extra_fields, as its (name, template) items
RECURSIVE proc_stack_extra_fields(_, _, _)
proc_stack_extra_fields(data, fields, tags) ==
  IF fields = <<>> THEN NoResult
  ELSE Concat(extra_field_matches(fields[1][2], field_findall(data, fields[1][1], 1), tags),
              proc_stack_extra_fields(data, Tail(fields), tags))

\* a loop body that keeps a reference check_image returned None for, with no candidate
image_entry_keeps_none(s, image, tags) ==
  IF disabled(s, image[1])
  THEN [r |-> <<>>, queries |-> <<>>, notices |-> <<<<"autoupdate disabled", image[1]>>>>]
  ELSE LET c == check_image(image[1], image[2], tags)
           note == IF c.notice = "" THEN <<>> ELSE <<<<c.notice, image[1]>>>>
           asked == IF c.query = None THEN <<>> ELSE <<c.query>>
       IN  IF c.updates = None
           THEN [r |-> <<<<image, <<>>>>>>, queries |-> asked, notices |-> note]
           ELSE [r |-> <<<<image, c.updates>>>>, queries |-> asked, notices |-> note]

\* the body of the loop of _proc_stack_image for one image
image_entry(s, image, tags) ==
  IF disabled(s, image[1])
  THEN [r |-> <<>>, queries |-> <<>>, notices |-> <<<<"autoupdate disabled", image[1]>>>>]
  ELSE LET c == check_image(image[1], image[2], tags)
           note == IF c.notice = "" THEN <<>> ELSE <<<<c.notice, image[1]>>>>
           asked == IF c.query = None THEN <<>> ELSE <<c.query>>
       IN  IF c.updates = None
           THEN [r |-> <<>>, queries |-> asked, notices |-> note]
           ELSE [r |-> <<<<image, c.updates>>>>, queries |-> asked, notices |-> note]

RECURSIVE image_entries(_, _, _)
image_entries(s, images, tags) ==
  IF images = <<>> THEN NoResult
  ELSE Concat(image_entry(s, images[1], tags), image_entries(s, Tail(images), tags))

proc_stack_image(s, tags) == image_entries(s, re_image_findall(s, 1), tags)

\* _proc_stack_jsonpath: nothing without an image JSONPath, else the scan of the
\* image: fields once more
proc_stack_jsonpath(s, jsonpath, tags) ==
  IF jsonpath = "" THEN NoResult
  ELSE image_entries(s, re_image_findall(s, 1), tags)

\* proc_stack on a file holding s, with self._extra_fields and self._image_jsonpath
proc_stack(s, fields, jsonpath, tags) ==
  Concat(proc_stack_extra_fields(s, fields, tags),
         Concat(proc_stack_image(s, tags), proc_stack_jsonpath(s, jsonpath, tags)))

-----------------------------------------------------------------------------
(* Change applier: the pure part of update_stack.                           *)

\* the position of the last occurrence of c in s, 0 when there is none
LastIndex(s, c) ==
  IF \A i \in 1..Len(s) : Ch(s, i) # c THEN 0
  ELSE CHOOSE i \in 1..Len(s) : Ch(s, i) = c /\ \A k \in (i + 1)..Len(s) : Ch(s, k) # c

\* Path.name and Path.stem of a relative path
PathName(path) == SubSeq(path, LastIndex(path, "/") + 1, Len(path))

PathStem(path) ==
  LET name == PathName(path)
      dot == LastIndex(name, ".")
  IN  IF dot <= 1 THEN name ELSE SubSeq(name, 1, dot - 1)

HexDigits == "0123456789abcdef"

\* the width of a SHA-1 hexdigest
DigestLen == 40

\* A checksum standing for SHA-1: the polynomial sum of the characters' codes, a
\* function of the characters in their order.  It is computed by halves, h(ab) =
\* h(a) * B^|b| + h(b).
ChecksumBase == 31

ChecksumMod == 32749

RECURSIVE PowMod(_)
PowMod(n) ==
  IF n = 0 THEN 1
  ELSE LET h == PowMod(n \div 2)
           sq == (h * h) % ChecksumMod
       IN  IF n % 2 = 0 THEN sq ELSE (sq * ChecksumBase) % ChecksumMod

RECURSIVE Checksum(_)
Checksum(s) ==
  IF s = "" THEN 0
  ELSE IF Len(s) = 1 THEN Ord(s)
  ELSE LET mid == Len(s) \div 2
           a == SubSeq(s, 1, mid)
           b == SubSeq(s, mid + 1, Len(s))
       IN  (((Checksum(a) * PowMod(Len(b))) % ChecksumMod) + Checksum(b)) % ChecksumMod

RECURSIVE HexOf(_, _)
HexOf(n, width) ==
  IF width = 0 THEN "" ELSE HexOf(n \div 16, width - 1) \o Ch(HexDigits, (n % 16) + 1)

\* hashlib.sha1(s.encode()).hexdigest(): 40 hexadecimal digits, a function of s
sha1_hexdigest(s) == "000000000000000000000000000000000000" \o HexOf(Checksum(s), 4)

\* the text replaced and its replacement for one bump
bump_old(original) ==
  IF Contains(original[1], ":") THEN original[1] \o original[2]
  ELSE original[1] \o ":" \o original[2]

bump_new(original, newest) ==
  IF Contains(original[1], ":") THEN original[1] \o newest[2]
  ELSE original[1] \o ":" \o newest[2]

bump_line(original, newest) ==
  "* bump " \o original[1] \o " from " \o original[2] \o " to " \o newest[2]

\* the loop of update_stack over data: the text after the replacements and cksum
RECURSIVE apply_bumps(_, _, _)
apply_bumps(s, cksum, data) ==
  IF data = <<>> THEN [s |-> s, cksum |-> cksum]
  ELSE LET original == data[1][1]
           newer_tags == data[1][2]
       IN  IF newer_tags = <<>> THEN apply_bumps(s, cksum, Tail(data))
           ELSE LET newest == newer_tags[Len(newer_tags)]
                IN  apply_bumps(Replace(s, bump_old(original), bump_new(original, newest)),
                                Append(cksum, bump_line(original, newest)),
                                Tail(data))

\* the scope of a file's branches and proposal
scope_of(stack) == PathStem(stack)

cleanup_prefix(stack) == "autoupdater/" \o scope_of(stack) \o "_"

\* the digest input of update_stack with only the first bump in it
digest_input_first(cksum) == cksum[1]

\* the digest input of update_stack: ''.join(cksum)
digest_input(cksum) == Join(cksum, "")

branch_name(stack, cksum) == cleanup_prefix(stack) \o sha1_hexdigest(digest_input(cksum))

proposal_title(stack) == "Update images in " \o PathStem(stack)

\* the JSON posted by create_branch_and_mr
proposal(stack, branch, body) ==
  [title |-> proposal_title(stack), head |-> branch, base |-> "main", body |-> body]

-----------------------------------------------------------------------------
(* Branch lifecycle manager: the branches property and cleanup_branches.    *)

\* str.strip
Strip(s) ==
  IF \A i \in 1..Len(s) : IsSpace(Ch(s, i)) THEN ""
  ELSE LET lo == CHOOSE i \in 1..Len(s) :
                   ~IsSpace(Ch(s, i)) /\ \A k \in 1..(i - 1) : IsSpace(Ch(s, k))
           hi == CHOOSE i \in 1..Len(s) :
                   ~IsSpace(Ch(s, i)) /\ \A k \in (i + 1)..Len(s) : IsSpace(Ch(s, k))
       IN  SubSeq(s, lo, hi)

\* the smallest string of a non-empty set
MinStr(S) == CHOOSE a \in S : \A b \in S : a = b \/ StrLess(a, b)

RECURSIVE SortedStrings(_)
SortedStrings(S) ==
  IF S = {} THEN <<>> ELSE <<MinStr(S)>> \o SortedStrings(S \ {MinStr(S)})

\* git fetch; git branch -a in a fresh checkout of main: the checked-out branch,
\* then the remote-tracking branches in git's order, one per line
git_branch_a(remote_branches) ==
  <<"* main">> \o SortedStrings({"  remotes/origin/" \o b : b \in remote_branches \cup {"main"}})

\* f'{branch}\n' in self.branches: some line of the listing ends with the name
branch_listed(lines, branch) == \E i \in 1..Len(lines) : EndsWith(lines[i], branch)

\* b.strip().split('/', 2)[-1]
existing_branch_of(b) ==
  LET t == Strip(b)
      p1 == Split1(t, "/")
  IN  IF Len(p1) = 1 THEN t
      ELSE LET p2 == Split1(p1[2], "/") IN p2[Len(p2)]

\* whether cleanup_branches deletes the branch of a line
cleanup_selects(existing_branch, prefix, keep) ==
  /\ StartsWith(existing_branch, prefix)
  /\ Len(existing_branch) = Len(prefix) + DigestLen
  /\ existing_branch \notin keep

\* the loop of cleanup_branches over the lines of the cached listing: git push
\* origin :branch removes the branch from the remote, and fails (check_call raises)
\* when the remote has no such branch
RECURSIVE cleanup_loop(_, _, _, _, _)
cleanup_loop(lines, prefix, keep, remote_branches, deleted) ==
  IF lines = <<>> THEN [ok |-> TRUE, remote |-> remote_branches, deleted |-> deleted]
  ELSE LET existing_branch == existing_branch_of(lines[1])
       IN  IF cleanup_selects(existing_branch, prefix, keep)
           THEN IF existing_branch \in remote_branches
                THEN cleanup_loop(Tail(lines), prefix, keep,
                                  remote_branches \ {existing_branch},
                                  deleted \cup {existing_branch})
                ELSE [ok |-> FALSE, remote |-> remote_branches, deleted |-> deleted]
           ELSE cleanup_loop(Tail(lines), prefix, keep, remote_branches, deleted)

cleanup_branches(lines, stack, keep, remote_branches) ==
  cleanup_loop(lines, cleanup_prefix(stack), keep, remote_branches, {})

-----------------------------------------------------------------------------
(* The program: one invocation of main after another on one repository.     *)
(* An invocation is a job of the workflow: it starts in a fresh checkout of  *)
(* the base revision, with a new CLI object (no cached branch listing).      *)

VARIABLES
  base,            \* the files of the base revision: path -> text
  registry,        \* the tag list the Tag Source returns
  extra_fields,    \* --extra-fields, as (name, template) items
  image_jsonpath,  \* --image-name-jsonpath ("" when not given)
  pc,              \* "idle", "run", "dry_run", "done" or "failed"
  dry,             \* args.dry of the invocation
  queue,           \* the files the glob has still to yield, in its order
  tree,            \* the working tree: path -> text
  head,            \* the checked-out revision
  local,           \* the local branches created in this checkout
  branches,        \* the cached_property branches: None or the lines of the listing
  remote,          \* the branches of origin
  pulls,           \* the proposals opened so far
  plan,            \* the plan dry_run has built, as (path, r) items
  output,          \* the plan written to GITHUB_OUTPUT, None when nothing was written
  writes,          \* the calls of write_text in this invocation
  posts,           \* the calls of requests.post in this invocation
  last,            \* what the last file's step did
  computed,        \* every (stack, cksum, branch) update_stack has computed
  prev,            \* the previous invocation: its entry point and how it ended
  runs,            \* the invocations started
  failures,        \* the outside failures (git or the API refusing a step) so far
  call,            \* a call of one function on its own: the arguments
  result           \* and what it returned: <<>> before the return, <<value>> after

progVars ==
  <<base, registry, extra_fields, image_jsonpath, pc, dry, queue, tree, head, local,
    branches, remote, pulls, plan, output, writes, posts, last, computed, prev, runs,
    failures>>

vars == <<progVars, call, result>>

\* the invocations one behaviour holds
MaxRuns == 3

\* the outside failures one behaviour holds
MaxFailures == 1

BaseRevision == "main"

\* the files the glob matches: two with one stem in two directories, or two stems
FileSets == { {"app/stack.yml", "db/stack.yml"}, {"app/stack.yml", "db/other.yml"} }

Texts ==
  { "image: nginx:1.19\n",
    "image: nginx:1.19\nimage: redis:6.0\n",
    "image: redis:6.0\nimage: nginx:1.19\n",
    "ver: 2.1\n" }

RegistryLists ==
  { <<"1.19">>,
    <<"1.19", "1.20", "1.21-alpine">>,
    <<"6.2", "2.4-a", "1.20">> }

\* the options of an invocation: none, or an extra field and an image JSONPath
Options ==
  { [extra_fields |-> <<>>, image_jsonpath |-> ""],
    [extra_fields |-> <<<<"ver", "p/p:?-a">>>>, image_jsonpath |-> "image.repository"] }

Orders(S) ==
  {q \in [1..Cardinality(S) -> S] : \A i, j \in 1..Cardinality(S) : i # j => q[i] # q[j]}

NoStep ==
  [stack |-> None, r |-> <<>>, queries |-> <<>>, notices |-> <<>>, updated |-> FALSE,
   branch |-> None, cleaned |-> FALSE, deleted |-> {}, created |-> FALSE]

Init ==
  /\ \E files \in FileSets : base \in [files -> Texts]
  /\ registry \in RegistryLists
  /\ \E o \in Options : extra_fields = o.extra_fields /\ image_jsonpath = o.image_jsonpath
  /\ pc = "idle"
  /\ dry = FALSE
  /\ queue = <<>>
  /\ tree = base
  /\ head = BaseRevision
  /\ local = {}
  /\ branches = None
  /\ remote = {}
  /\ pulls = {}
  /\ plan = <<>>
  /\ output = None
  /\ writes = 0
  /\ posts = 0
  /\ last = NoStep
  /\ computed = {}
  /\ prev = <<"none", "none">>
  /\ runs = 0
  /\ failures = 0
  /\ call = None
  /\ result = <<>>

\* a main that calls run whatever args.dry is
entry_of_run(is_dry) == "run"

\* main: args.dry (or INPUT_DRY) selects dry_run, else run
entry_of(is_dry) == IF is_dry THEN "dry_run" ELSE "run"

\* how an invocation that has ended is remembered
Outcome == IF pc = "idle" THEN <<"none", "none">> ELSE <<entry_of(dry), pc>>

\* main, CLI.__init__ and the glob, in a fresh checkout of the base revision
StartRun ==
  /\ pc \in {"idle", "done", "failed"}
  /\ runs < MaxRuns
  /\ \E is_dry \in BOOLEAN, order \in Orders(DOMAIN base) :
       /\ dry' = is_dry
       /\ pc' = entry_of(is_dry)
       /\ queue' = order
  /\ prev' = Outcome
  /\ runs' = runs + 1
  /\ tree' = base
  /\ head' = BaseRevision
  /\ local' = {}
  /\ branches' = None
  /\ plan' = <<>>
  /\ output' = None
  /\ writes' = 0
  /\ posts' = 0
  /\ last' = NoStep
  /\ UNCHANGED <<base, registry, extra_fields, image_jsonpath, remote, pulls, computed,
                 failures, call, result>>

\* proc_stack on every text, option and tag list of the model, computed once, as
\* the rows (text, options, tags, value of proc_stack)
PlanRows ==
  {<<t, o, l, proc_stack(t, o.extra_fields, o.image_jsonpath, l)>> :
     t \in Texts, o \in Options, l \in RegistryLists}

\* self.proc_stack(stack) on a file holding the text
read_plan(text) ==
  (CHOOSE row \in PlanRows :
     /\ row[1] = text
     /\ row[2].extra_fields = extra_fields
     /\ row[2].image_jsonpath = image_jsonpath
     /\ row[3] = registry)[4]

\* the steps of create_branch_and_mr an outside failure can hit
FailPoints == {"none", "checkout", "commit", "push", "post"}

\* create_branch_and_mr on the git state g (tree, head, local, remote, pulls, posts):
\* checkout -b, commit -a, push, POST; check_call and raise_for_status raise at the
\* first step that fails, and the steps after it do not run.  git itself refuses
\* checkout -b of a branch the checkout has, and commit -a of an unchanged tree.
create_branch_and_mr(g, stack, branch, body, committed, fail) ==
  LET s1 == IF fail = "checkout" \/ branch \in g.local
            THEN [g EXCEPT !.ok = FALSE]
            ELSE [g EXCEPT !.head = branch, !.local = @ \cup {branch}]
      s2 == IF ~s1.ok THEN s1
            ELSE IF fail = "commit" \/ s1.tree = committed
            THEN [s1 EXCEPT !.ok = FALSE]
            ELSE s1
      s3 == IF ~s2.ok THEN s2
            ELSE IF fail = "push"
            THEN [s2 EXCEPT !.ok = FALSE]
            ELSE [s2 EXCEPT !.remote = @ \cup {branch}]
  IN  IF ~s3.ok THEN s3
      ELSE IF fail = "post"
      THEN [s3 EXCEPT !.ok = FALSE, !.posts = @ + 1]
      ELSE [s3 EXCEPT !.pulls = @ \cup {proposal(stack, branch, body)}, !.posts = @ + 1]

\* update_stack(stack, data) on the git state g with the cached listing cache (None
\* before the first use): the pair returned, the git state and the cache after it
update_stack(g, cache, stack, data, committed, fail) ==
  LET ab == apply_bumps(g.tree[stack], <<>>, data)
      branch == branch_name(stack, ab.cksum)
      listing == IF cache = None THEN git_branch_a(g.remote) ELSE cache
      written == [g EXCEPT !.tree[stack] = ab.s, !.writes = @ + 1]
      made == create_branch_and_mr(written, stack, branch, Join(ab.cksum, "\n"),
                                   committed, fail)
  IN  IF ab.cksum = <<>>
      THEN [updated |-> FALSE, branch |-> None, cksum |-> ab.cksum, g |-> g, cache |-> cache]
      ELSE IF branch_listed(listing, branch)
      THEN [updated |-> FALSE, branch |-> branch, cksum |-> ab.cksum, g |-> g,
            cache |-> listing]
      ELSE IF ~made.ok
      THEN [updated |-> FALSE, branch |-> branch, cksum |-> ab.cksum, g |-> made,
            cache |-> listing]
      ELSE [updated |-> TRUE, branch |-> branch, cksum |-> ab.cksum,
            g |-> [made EXCEPT !.head = BaseRevision, !.tree = committed],
            cache |-> listing]

\* the body of the loop of run for one file, whose proc_stack gave ps: update_stack
\* and cleanup_branches
run_file(g, cache, stack, ps, fail) ==
  LET us == update_stack(g, cache, stack, ps.r, base, fail)
      cl == cleanup_branches(us.cache, stack, {us.branch}, us.g.remote)
      seen == [stack |-> stack, r |-> ps.r, queries |-> ps.queries, notices |-> ps.notices,
               updated |-> FALSE, branch |-> None, cleaned |-> FALSE, deleted |-> {},
               created |-> FALSE]
  IN  IF ps.r = <<>>
      THEN [g |-> g, cache |-> cache, step |-> seen, cksum |-> <<>>]
      ELSE IF ~us.g.ok
      THEN [g |-> us.g, cache |-> us.cache, cksum |-> us.cksum,
            step |-> [seen EXCEPT !.branch = us.branch]]
      ELSE IF us.branch = None
      THEN [g |-> us.g, cache |-> us.cache, step |-> seen, cksum |-> us.cksum]
      ELSE [g |-> [us.g EXCEPT !.remote = cl.remote, !.ok = cl.ok],
            cache |-> us.cache, cksum |-> us.cksum,
            step |-> [seen EXCEPT !.updated = us.updated, !.branch = us.branch,
                                  !.created = us.updated,
                                  !.cleaned = cl.ok, !.deleted = cl.deleted]]

GitState ==
  [tree |-> tree, head |-> head, local |-> local, remote |-> remote, pulls |-> pulls,
   posts |-> posts, writes |-> writes, ok |-> TRUE]

\* run: the next file of the glob.  An outside failure can hit a step of
\* create_branch_and_mr only where update_stack gets to creating the proposal.
RunFile ==
  /\ pc = "run"
  /\ queue # <<>>
  /\ \E stack \in {Head(queue)} :
     \E ps \in {read_plan(tree[stack])} :
     \E smooth \in {run_file(GitState, branches, stack, ps, "none")} :
     \E fail \in IF smooth.step.created /\ failures < MaxFailures THEN FailPoints ELSE {"none"} :
     \E n \in {IF fail = "none" THEN smooth ELSE run_file(GitState, branches, stack, ps, fail)} :
           /\ tree' = n.g.tree
           /\ head' = n.g.head
           /\ local' = n.g.local
           /\ remote' = n.g.remote
           /\ pulls' = n.g.pulls
           /\ posts' = n.g.posts
           /\ writes' = n.g.writes
           /\ branches' = n.cache
           /\ last' = n.step
           /\ computed' = IF n.step.branch = None THEN computed
                          ELSE computed \cup {<<stack, n.cksum, n.step.branch>>}
           /\ queue' = IF n.g.ok THEN Tail(queue) ELSE queue
           /\ pc' = IF ~n.g.ok THEN "failed"
                    ELSE IF Tail(queue) = <<>> THEN "done" ELSE "run"
           /\ failures' = IF fail # "none" THEN failures + 1 ELSE failures
  /\ UNCHANGED <<base, registry, extra_fields, image_jsonpath, dry, plan, output, prev,
                 runs, call, result>>

\* a dry_run that reports every file with a reference
any_update_any_entry(r) == r # <<>>

\* whether dry_run reports the file: any_update
any_update(r) == \E i \in 1..Len(r) : r[i][2] # <<>>

\* dry_run: the next file of the glob, and after the last one the plan, when it is
\* not empty, written to the output
DryFile ==
  /\ pc = "dry_run"
  /\ queue # <<>>
  /\ \E stack \in {Head(queue)} :
     \E ps \in {read_plan(tree[stack])} :
     \E plan1 \in {IF any_update(ps.r) THEN Append(plan, <<stack, ps.r>>) ELSE plan} :
         /\ plan' = plan1
         /\ last' = [NoStep EXCEPT !.stack = stack, !.r = ps.r, !.queries = ps.queries,
                                   !.notices = ps.notices]
         /\ queue' = Tail(queue)
         /\ pc' = IF Tail(queue) = <<>> THEN "done" ELSE "dry_run"
         /\ output' = IF Tail(queue) = <<>> /\ plan1 # <<>> THEN plan1 ELSE output
  /\ UNCHANGED <<base, registry, extra_fields, image_jsonpath, dry, tree, head, local,
                 branches, remote, pulls, writes, posts, computed, prev, runs, failures,
                 call, result>>

Next == StartRun \/ RunFile \/ DryFile

Spec == Init /\ [][Next]_vars

-----------------------------------------------------------------------------
(* The functions on their own: check_image and proc_stack called once on    *)
(* arguments drawn from bounded sets, as the unit tests call them.           *)

\* the longest registry tag list of a call
MaxTags == 2

RECURSIVE SeqsUpTo(_, _)
SeqsUpTo(S, n) ==
  IF n = 0 THEN {<<>>}
  ELSE SeqsUpTo(S, n - 1) \cup {Append(q, x) : q \in SeqsUpTo(S, n - 1), x \in S}

CallImages ==
  {"nginx", "org/app", "ghcr.io/app", "ghcr.io/org/app", "localhost/app", "localhost/a/b",
   "reg:5000/app", "a/b/c"}

CallCurrentTags == {"1.19", "1.9", "v1.2-rc1", "1.19-alpine", "2.21.0", "1-2", "latest", "7"}

CallRegistryTags ==
  {"1.19", "1.20", "1.21-alpine", "1.20.1", "1-21", "01.20", "1.9", "v1.3-rc1", "v1.3-4-rc1",
   "v2.0", "2.24.0", "latest", "8", "1.20."}

CallTexts ==
  { "ver: 2.21.0\n",
    "# autoupdater: disable\nver: 2.21.0\n",
    "# autoupdater: disable\nimage: nginx:1.19\n",
    "image: nginx:1.19\nver: 2.21.0\n" }

CallExtraFields ==
  { <<>>,
    <<<<"ver", "p/p:?-alpine">>>>,
    <<<<"ver", "p/p:?">>>>,
    <<<<"ver", "p/p:v?">>>>,
    <<<<"ver", "p/p:v?-alpine">>>> }

CallPlanTags ==
  {"2.24.0-alpine", "2.25.0", "v2.24.0", "v2.24.0-alpine", "1.20"}

\* files of image: fields: a tag without a digit, quoted fields, a repository whose
\* name ends in another's, and disable annotations
CallImageTexts ==
  { "image: nginx:1.19\n",
    "image: app:latest\nimage: nginx:1.19\n",
    "image: nginx:1.1\nimage: app:latest\nimage: redis:1.19\n",
    "image: \"nginx:1.19\"\n",
    "image: 'nginx:1.19'\n",
    "image: nginx:1.1\nimage: mynginx:1.19\n",
    "# autoupdater: disable\nimage: nginx-proxy:1.0\nimage: nginx:1.19\n",
    "# autoupdater: disable\nimage: nginx:1.19\nimage: redis:1.1\n",
    "image: nginx:1.19\n# autoupdater: disable\nimage: nginx:1.19\n" }

CallImageTags == {"1.20", "1.2", "1-21", "1.19", "latest"}

Calls ==
  {[op |-> "check_image", image |-> "nginx", tag |-> t, tags |-> l] :
     t \in CallCurrentTags, l \in SeqsUpTo(CallRegistryTags, MaxTags)}
  \cup
  {[op |-> "check_image", image |-> i, tag |-> "1.19", tags |-> <<"1.20">>] : i \in CallImages}
  \cup
  {[op |-> "proc_stack", text |-> x, extra_fields |-> e, image_jsonpath |-> "", tags |-> l] :
     x \in CallTexts, e \in CallExtraFields, l \in SeqsUpTo(CallPlanTags, MaxTags)}
  \cup
  {[op |-> o, text |-> x, extra_fields |-> <<>>, image_jsonpath |-> "", tags |-> l] :
     o \in {"proc_stack", "update_stack"}, x \in CallImageTexts,
     l \in SeqsUpTo(CallImageTags, MaxTags)}

CallInit ==
  /\ base = [f \in {"app/stack.yml"} |-> "image: nginx:1.19\n"]
  /\ registry = <<>>
  /\ extra_fields = <<>>
  /\ image_jsonpath = ""
  /\ pc = "idle"
  /\ dry = FALSE
  /\ queue = <<>>
  /\ tree = base
  /\ head = BaseRevision
  /\ local = {}
  /\ branches = None
  /\ remote = {}
  /\ pulls = {}
  /\ plan = <<>>
  /\ output = None
  /\ writes = 0
  /\ posts = 0
  /\ last = NoStep
  /\ computed = {}
  /\ prev = <<"none", "none">>
  /\ runs = 0
  /\ failures = 0
  /\ call \in Calls
  /\ result = <<>>

CallCheckImage ==
  /\ result = <<>>
  /\ call.op = "check_image"
  /\ result' = <<check_image(call.image, call.tag, call.tags)>>
  /\ UNCHANGED <<progVars, call>>

CallProcStack ==
  /\ result = <<>>
  /\ call.op = "proc_stack"
  /\ result' = <<proc_stack(call.text, call.extra_fields, call.image_jsonpath, call.tags)>>
  /\ UNCHANGED <<progVars, call>>

\* the body of the loop of run up to the digest: proc_stack, then the replacements and
\* the bump lines of update_stack
CallUpdateStack ==
  /\ result = <<>>
  /\ call.op = "update_stack"
  /\ \E ps \in {proc_stack(call.text, call.extra_fields, call.image_jsonpath, call.tags)} :
     \E ab \in {apply_bumps(call.text, <<>>, ps.r)} :
       result' = <<[r |-> ps.r, queries |-> ps.queries, notices |-> ps.notices,
                    s |-> ab.s, cksum |-> ab.cksum]>>
  /\ UNCHANGED <<progVars, call>>

CallNext == CallCheckImage \/ CallProcStack \/ CallUpdateStack

SpecCalls == CallInit /\ [][CallNext]_vars

-----------------------------------------------------------------------------
(* Properties.                                                              *)

\* the branches of origin in the scope of a file: the prefix, then a digest's length
InScope(b, stack) ==
  StartsWith(b, cleanup_prefix(stack)) /\ Len(b) = Len(cleanup_prefix(stack)) + DigestLen

\* C1: a live run started right after a live run that completed, on the same files
\* and the same tag list, writes no file and opens no proposal.
C1_IdempotentRerun ==
  (prev = <<"run", "done">> /\ ~dry) => (writes = 0 /\ posts = 0)

\* the tuple a is greater than the tuple b of the same length, lexicographically
LexGreater(a, b) ==
  \E i \in 1..Len(a) : a[i] > b[i] /\ \A j \in 1..(i - 1) : a[j] = b[j]

\* the registry tag t has the prefix and suffix of the current tag, as many segments,
\* and a greater tuple
NewerCandidate(current, t) ==
  LET m == re_tag_match(current)
      c == re_tag_match(t)
  IN  /\ c.ok
      /\ c.g1 = m.g1
      /\ c.g4 = m.g4
      /\ Len(version_tuple(c.g2)) = Len(version_tuple(m.g2))
      /\ LexGreater(version_tuple(c.g2), version_tuple(m.g2))

\* C2: for a current tag with a numeric run, a registry tag is in the list check_image
\* returns if and only if its prefix and suffix are the current tag's, its run has as
\* many segments and its tuple is strictly greater; the list holds nothing else.
C2_ExactlyNewerCandidates ==
  (result # <<>> /\ call.op = "check_image" /\ re_tag_match(call.tag).ok
     /\ ~unsupported_registry(call.image)) =>
    LET updates == result[1].updates
    IN  /\ \A i \in 1..Len(call.tags) :
             (\E k \in 1..Len(updates) : updates[k][2] = call.tags[i])
               <=> NewerCandidate(call.tag, call.tags[i])
        /\ \A k \in 1..Len(updates) : \E i \in 1..Len(call.tags) : updates[k][2] = call.tags[i]

\* check_image has returned 1.20 alone for the current tag 1.19 and a registry that
\* also lists a tag with one more segment
C2_Witness ==
  /\ result # <<>>
  /\ call.op = "check_image"
  /\ call.tag = "1.19"
  /\ call.tags = <<"1.20.1", "1.20">>
  /\ result[1].updates = <<<<<<1, 20>>, "1.20">>>>

\* the lines of a text
LinesOf(text) == Split(text, "\n")

\* the reference (locator, tag) stands on a line that follows a line holding the
\* disable marker alone
Annotated(text, original) ==
  \E k \in 1..(Len(LinesOf(text)) - 1) :
    /\ Strip(LinesOf(text)[k]) = DisableMarker
    /\ Contains(LinesOf(text)[k + 1], original[1])
    /\ Contains(LinesOf(text)[k + 1], original[2])

\* C3: no entry of the plan proc_stack returns is a reference annotated as disabled.
C3_DisabledNeverPlanned ==
  (result # <<>> /\ call.op = "proc_stack") =>
    \A i \in 1..Len(result[1].r) : ~Annotated(call.text, result[1].r[i][1])

\* C4: every candidate reported for an extra field, put back into the tag part of the
\* field's template, is a tag of the registry.
C4_TemplateRoundTrip ==
  (result # <<>> /\ call.op = "proc_stack") =>
    \A e \in 1..Len(call.extra_fields) : \A i \in 1..Len(result[1].r) :
      LET entry == result[1].r[i]
          tag_template == Split1(call.extra_fields[e][2], ":")[2]
      IN  (Contains(entry[1][1], ":") /\ StartsWith(entry[1][1], call.extra_fields[e][1])) =>
            \A k \in 1..Len(entry[2]) :
              \E j \in 1..Len(call.tags) :
                call.tags[j] = Replace(tag_template, "?", entry[2][k][2])

\* the repository name has more than one path segment and a first segment that looks
\* like a host
HostLike(image) ==
  /\ Count(image, "/") >= 1
  /\ LET part1 == Split1(image, "/")[1]
     IN  Contains(part1, ".") \/ Contains(part1, ":") \/ part1 = "localhost"

\* C5: for a repository name with a host-like first segment check_image returns no
\* candidate list and the Tag Source is not queried.
C5_HostLikeExcluded ==
  (result # <<>> /\ call.op = "check_image" /\ HostLike(call.image)) =>
    (result[1].updates = None /\ result[1].query = None)

\* C6: in a live run the checked-out revision is the base revision after every file,
\* also after a file whose proposal creation failed partway.
C6_ScopedRestore ==
  (~dry /\ pc \in {"run", "done", "failed"}) => head = BaseRevision

\* C7: when cleanup_branches has returned for a file, the only branch of the file's
\* scope left on the remote is the keep branch, and what it deleted was in that scope
\* and was not the keep branch.
C7_CleanupLeavesOnlyKeep ==
  last.cleaned =>
    /\ \A b \in remote : InScope(b, last.stack) => b = last.branch
    /\ last.branch \notin last.deleted
    /\ \A b \in last.deleted : InScope(b, last.stack)

\* C8: no step of a dry run changes a file, the checked-out revision, a local or a
\* remote branch, the cached listing or the proposals, and none writes or posts.
C8_DryRunMutatesNothing ==
  [][(dry /\ dry') =>
       /\ tree' = tree
       /\ head' = head
       /\ local' = local
       /\ remote' = remote
       /\ pulls' = pulls
       /\ branches' = branches
       /\ writes' = writes
       /\ posts' = posts]_vars

\* a dry run has ended and emitted its plan, on a remote that holds branches and
\* proposals of an earlier live run
C8_Witness ==
  dry /\ pc = "done" /\ output # None /\ remote # {} /\ pulls # {}

\* C9: among the branch names update_stack has computed, over all runs and glob
\* orders, two of one scope are equal exactly when their ordered bump lists are equal.
C9_BranchNameDeterministic ==
  \A x \in computed : \A y \in computed :
    scope_of(x[1]) = scope_of(y[1]) => (x[2] = y[2] <=> x[3] = y[3])

\* two files of one scope whose bump lists hold the same two bumps in the two orders
\* have been given branch names, in more than one run
C9_Witness ==
  /\ runs >= 2
  /\ \E x \in computed : \E y \in computed :
       /\ scope_of(x[1]) = scope_of(y[1])
       /\ Len(x[2]) = 2
       /\ x[2][1] # x[2][2]
       /\ y[2] = <<x[2][2], x[2][1]>>
       /\ x[3] # y[3]

\* C10: two different files are never given the same branch name or the same
\* cleanup prefix.
C10_ScopeSeparatesFiles ==
  \A x \in computed : \A y \in computed :
    x[1] # y[1] => (x[3] # y[3] /\ cleanup_prefix(x[1]) # cleanup_prefix(y[1]))

\* the line of a reference whose tag holds no digit
NonSemverLine == "image: app:latest\n"

\* the text without that line
WithoutNonSemver(text) == Replace(text, NonSemverLine, "")

HasDigit(tag) == \E i \in 1..Len(tag) : IsDigit(Ch(tag, i))

\* C11: for a file that holds image: app:latest, the plan has no entry whose tag has
\* no digit, a non-semver diagnostic is raised for app, and the plan, the bump lines
\* and the rewritten text are those of the same file without that line, the line
\* itself being kept.
C11_NonSemverSkipped ==
  (result # <<>> /\ call.op \in {"proc_stack", "update_stack"}
     /\ Contains(call.text, NonSemverLine)) =>
    LET absent == proc_stack(WithoutNonSemver(call.text), call.extra_fields,
                             call.image_jsonpath, call.tags)
        ab == apply_bumps(WithoutNonSemver(call.text), <<>>, absent.r)
    IN  /\ \A i \in 1..Len(result[1].r) : HasDigit(result[1].r[i][1][2])
        /\ \E i \in 1..Len(result[1].notices) :
             result[1].notices[i] = <<"non-semver tag", "app">>
        /\ result[1].r = absent.r
        /\ call.op = "update_stack" =>
             /\ result[1].cksum = ab.cksum
             /\ Contains(result[1].s, NonSemverLine)
             /\ WithoutNonSemver(result[1].s) = ab.s

\* a file with app:latest between two references has been rewritten with both bumps
C11_Witness ==
  /\ result # <<>>
  /\ call.op = "update_stack"
  /\ call.text = "image: nginx:1.1\nimage: app:latest\nimage: redis:1.19\n"
  /\ result[1].cksum = <<"* bump nginx from 1.1 to 1.20", "* bump redis from 1.19 to 1.20">>
  /\ result[1].s = "image: nginx:1.20\nimage: app:latest\nimage: redis:1.20\n"

\* some reference of the plan r has a non-empty candidate list
HasCandidates(r) == \E i \in 1..Len(r) : Len(r[i][2]) > 0

\* the files with such a reference
Qualifying == {f \in DOMAIN base : HasCandidates(read_plan(base[f]).r)}

\* the files of an emitted plan
FilesOf(emitted) ==
  IF emitted = None THEN {} ELSE {emitted[i][1] : i \in 1..Len(emitted)}

\* when a dry run has ended, the plan it emitted holds exactly the qualifying files,
\* and nothing was emitted when there is none
PlanHoldsQualifying ==
  (dry /\ pc = "done") =>
    /\ FilesOf(output) = Qualifying
    /\ (output = None) <=> (Qualifying = {})

\* the step of a live run over a file that does not qualify writes nothing, creates
\* no branch, opens no proposal and cleans up nothing
NoActionWithoutCandidates ==
  (pc = "run" /\ queue # <<>> /\ Head(queue) \notin Qualifying) =>
    /\ UNCHANGED <<tree, head, local, remote, pulls, writes, posts>>
    /\ ~last'.created
    /\ ~last'.cleaned
    /\ last'.deleted = {}

\* C12: a file is in the plan a dry run emits if and only if one of its references
\* has a non-empty candidate list, no plan is emitted when no file has one, and a
\* live run over a file without one writes nothing, creates no branch, opens no
\* proposal and cleans up no branch.
C12_PlanIffCandidates ==
  []PlanHoldsQualifying /\ [][NoActionWithoutCandidates]_vars

\* a dry run has emitted a plan that omits a file whose references all have empty
\* candidate lists
C12_Witness ==
  /\ dry
  /\ pc = "done"
  /\ output # None
  /\ \E f \in DOMAIN base :
       /\ f \notin FilesOf(output)
       /\ read_plan(base[f]).r # <<>>

\* the candidate list is in ascending order of the version tuples
Ascending(updates) ==
  \A k \in 1..(Len(updates) - 1) : ~TupleLess(updates[k + 1][1], updates[k][1])

\* the candidate c of the list has a greatest version tuple
IsMaximum(c, updates) == \A j \in 1..Len(updates) : ~TupleLess(c[1], updates[j][1])

\* the entries of a plan that have a candidate
BumpedEntries(r) == SelectSeq(r, LAMBDA e : e[2] # <<>>)

\* no text that a bump replaces occurs a second time in the file
BumpsApart(text, r) ==
  \A i \in 1..Len(r) : r[i][2] # <<>> => Count(text, bump_old(r[i][1])) = 1

QuoteChars == {"\"", "'"}

HasQuote(text) == \E i \in 1..Len(text) : Ch(text, i) \in QuoteChars

\* the text with its quote characters removed
Unquoted(text) == Replace(Replace(text, "\"", ""), "'", "")

\* C14: for a file whose image: fields are quoted, proc_stack returns the plan of the
\* same file written without the quotes, and no tag of the plan holds a quote
\* character.
C14_QuotingOptional ==
  (result # <<>> /\ call.op = "proc_stack" /\ HasQuote(call.text)) =>
    /\ result[1].r = proc_stack(Unquoted(call.text), call.extra_fields,
                                call.image_jsonpath, call.tags).r
    /\ \A i \in 1..Len(result[1].r) : ~HasQuote(result[1].r[i][1][2])

\* the line as the plan r says it is to be after the rewrite: a line holding a
\* reference that has candidates in r ends in the newest candidate's tag, every
\* other line is as it was
ExpectedLine(line, r) ==
  LET found == re_image_findall(line, 1)
  IN  IF found # <<>> /\ \E i \in 1..Len(r) : r[i][1] = found[1] /\ r[i][2] # <<>>
      THEN LET i == CHOOSE j \in 1..Len(r) : r[j][1] = found[1] /\ r[j][2] # <<>>
           IN  SubSeq(line, 1, Len(line) - Len(found[1][2])) \o r[i][2][Len(r[i][2])][2]
      ELSE line

RECURSIVE ExpectedLines(_, _)
ExpectedLines(lines, r) ==
  IF lines = <<>> THEN <<>>
  ELSE <<ExpectedLine(lines[1], r)>> \o ExpectedLines(Tail(lines), r)

ExpectedText(text, r) == Join(ExpectedLines(Split(text, "\n"), r), "\n")

\* C15: the text update_stack writes is the file's text with the tag of every
\* reference that has candidates replaced by its newest candidate, and nothing else
\* changed.
C15_OnlyPlannedBumps ==
  (result # <<>> /\ call.op = "update_stack") =>
    result[1].s = ExpectedText(call.text, result[1].r)

\* C16: when a live run has completed, every file that has a bump has its target
\* branch on the remote: no cleanup made for another file has deleted it.
C16_KeepBranchesSurvive ==
  (~dry /\ pc = "done") =>
    \A f \in Qualifying :
      /\ \E x \in computed : x[1] = f
      /\ \A x \in computed : x[1] = f => x[3] \in remote

\* line k of the lines holds a reference and the line before it is not the disable
\* marker
Unannotated(lines, k) ==
  /\ re_image_findall(lines[k], 1) # <<>>
  /\ k = 1 \/ Strip(lines[k - 1]) # DisableMarker

\* C17: every image: reference that is not preceded by the disable marker, and that
\* check_image gives a candidate list for, is in the plan proc_stack returns,
\* whatever other references of the file are annotated.
C17_DisableOnlyAnnotated ==
  (result # <<>> /\ call.op = "proc_stack") =>
    \A k \in 1..Len(LinesOf(call.text)) :
      Unannotated(LinesOf(call.text), k) =>
        LET image == re_image_findall(LinesOf(call.text)[k], 1)[1]
        IN  check_image(image[1], image[2], call.tags).updates # None =>
              \E i \in 1..Len(result[1].r) : result[1].r[i][1] = image

====
